---- MODULE Spec2Model ----
(***************************************************************************)
(* Outgoing webhook delivery of listmonk: the webhooks and webhook_logs    *)
(* tables, the Trigger fan-out, the polling workers of the webhook         *)
(* Manager with their retry/backoff bookkeeping, and the admin operations  *)
(* that edit endpoints.                                                    *)
(***************************************************************************)
EXTENDS Integers, Sequences, FiniteSets, TLC

\* ------------------------------------------------------------------ bounds

\* Rows of the webhooks table ever created (ids are SERIAL, never reused).
MaxWebhooks == 2
\* Rows of the webhook_logs table ever created (ids are BIGSERIAL).
MaxLogs == 2
\* Trigger calls made.
MaxTriggers == 1
\* UpdateWebhook / DeleteWebhooks calls made.
MaxEdits == 1
\* The clock stops advancing here; one unit of the clock is 30 seconds.
MaxNow == 6
\* Delivery attempts started, over all workers and rows.
MaxSends == 3
\* Largest attempt number whose backoff is evaluated on its own.
MaxAttempt == 70
\* Goroutines calling Run and Close at the same time.
MaxCallers == 2
\* Run and Close calls made on one manager.
MaxCalls == 4
\* Rows one read of a worker goroutine returns in the lifecycle model.
MaxBatch == 2
\* The LIMIT of a read in the liveness model: fewer than the rows due.
LiveBatchLimit == 1
\* The LIMIT of a read, the Trigger calls made and the log rows created in
\* the batch model.
BatchScale == 2
BatchTriggers == 2
BatchLogs == 3

\* ------------------------------------------------- int64 (time.Duration)

\* time.Duration is an int64 of nanoseconds.  It is kept as 8 little-endian
\* limbs of 8 bits, so that products wrap exactly as the 64-bit machine
\* multiplication does.
LimbBase == 256
NumLimbs == 8

LimbIdx == 0..(NumLimbs - 1)

\* The int64 of a small natural number (below 2^31).
FromNat(n) ==
  [i \in LimbIdx |-> IF i < 4 THEN (n \div (LimbBase ^ i)) % LimbBase ELSE 0]

RECURSIVE ColSum(_, _, _, _)
ColSum(x, y, k, i) ==
  IF i > k THEN 0 ELSE x[i] * y[k - i] + ColSum(x, y, k, i + 1)

RECURSIVE MulCarry(_, _, _)
MulCarry(x, y, k) ==
  IF k = 0 THEN 0
  ELSE (ColSum(x, y, k - 1, 0) + MulCarry(x, y, k - 1)) \div LimbBase

\* x * y modulo 2^64.
Mul64(x, y) ==
  [k \in LimbIdx |-> (ColSum(x, y, k, 0) + MulCarry(x, y, k)) % LimbBase]

\* 1 << n on an int64: zero once the bit is shifted out.
Shl1(n) ==
  [i \in LimbIdx |->
     IF n < 8 * NumLimbs /\ i = n \div 8 THEN 2 ^ (n % 8) ELSE 0]

IsNeg64(x) == x[NumLimbs - 1] >= LimbBase \div 2

RECURSIVE GtFrom(_, _, _)
GtFrom(x, y, i) ==
  IF x[i] # y[i] THEN x[i] > y[i]
  ELSE IF i = 0 THEN FALSE
  ELSE GtFrom(x, y, i - 1)

\* x > y as signed 64-bit integers.
Gt64(x, y) ==
  IF IsNeg64(x) # IsNeg64(y) THEN IsNeg64(y)
  ELSE GtFrom(x, y, NumLimbs - 1)

Zero64 == FromNat(0)
Second == FromNat(1000000000)
Hour == Mul64(FromNat(3600), Second)
TwoHours == Mul64(FromNat(2), Hour)

\* ---------------------------------------------------------------- backoff

\* handleDeliveryError: the delay before the retry that follows attempt
\* number `attempts`.
backoff(attempts) ==
  LET b == Mul64(Mul64(Shl1(attempts), FromNat(30)), Second)
  IN  IF Gt64(b, TwoHours) THEN TwoHours ELSE b

\* ------------------------------------------------------------ vocabulary

\* models.AllWebhookEvents: the event names an endpoint may subscribe to.
AllWebhookEvents ==
  { "subscriber.created", "subscriber.updated", "subscriber.deleted",
    "subscriber.optin_start", "subscriber.optin_finish",
    "subscriber.added_to_list", "subscriber.removed_from_list",
    "subscriber.unsubscribed", "subscriber.bounced",
    "campaign.started", "campaign.paused", "campaign.cancelled",
    "campaign.finished" }

WebhookStatusEnabled == "enabled"
WebhookStatusDisabled == "disabled"

WebhookAuthTypeNone == "none"
WebhookAuthTypeBasic == "basic"
WebhookAuthTypeHMAC == "hmac"

WebhookLogStatusPending == "pending"
WebhookLogStatusSuccess == "success"
WebhookLogStatusFailed == "failed"

\* SQL NULL of the nullable columns response_code and next_retry_at.
Null == -1

\* Event names and data values the callers of Trigger pass in.  A data
\* value of Unserializable is one json.Marshal rejects (a channel, a
\* function, a NaN).
TriggerEvents == {"subscriber.created", "campaign.started"}
Unserializable == "unserializable"
TriggerData == {"d1", Unserializable}

\* An URL http.NewRequest cannot parse (it has no protocol scheme).
BadURL == ":bad"

\* Rune counts of the strings the admin inputs use; "long-name" stands for
\* a name of 201 characters.
StrLen(s) ==
  CASE s = "" -> 0
    [] s = "hook" -> 4
    [] s = "long-name" -> 201
    [] s = BadURL -> 4
    [] OTHER -> 11

strHasLen(str, min, max) == StrLen(str) >= min /\ StrLen(str) <= max

\* Request bodies the admin API receives for CreateWebhook / UpdateWebhook.
WebhookInputs ==
  { [name |-> "hook", url |-> "http://r/ok", status |-> "",
     events |-> {"subscriber.created"}, max_retries |-> 1,
     auth_type |-> "", auth_basic_user |-> "", auth_basic_pass |-> "",
     auth_hmac_secret |-> "", timeout |-> ""],
    [name |-> "hook", url |-> "http://r/v2", status |-> "enabled",
     events |-> {"subscriber.created", "campaign.started"}, max_retries |-> 2,
     auth_type |-> "hmac", auth_basic_user |-> "", auth_basic_pass |-> "",
     auth_hmac_secret |-> "s3cret", timeout |-> "5s"],
    [name |-> "hook", url |-> BadURL, status |-> "enabled",
     events |-> {"subscriber.created", "campaign.started"},
     max_retries |-> -1,
     auth_type |-> "basic", auth_basic_user |-> "u", auth_basic_pass |-> "p",
     auth_hmac_secret |-> "", timeout |-> "30s"],
    [name |-> "hook", url |-> "http://r/ok", status |-> "disabled",
     events |-> {"subscriber.created"}, max_retries |-> 0,
     auth_type |-> "hmac", auth_basic_user |-> "", auth_basic_pass |-> "",
     auth_hmac_secret |-> "", timeout |-> ""],
    [name |-> "long-name", url |-> "http://r/ok", status |-> "enabled",
     events |-> {"subscriber.created"}, max_retries |-> 1,
     auth_type |-> "none", auth_basic_user |-> "", auth_basic_pass |-> "",
     auth_hmac_secret |-> "", timeout |-> "30s"],
    [name |-> "hook", url |-> "http://r/ok", status |-> "enabled",
     events |-> {"webhook.test"}, max_retries |-> 1,
     auth_type |-> "none", auth_basic_user |-> "", auth_basic_pass |-> "",
     auth_hmac_secret |-> "", timeout |-> "30s"] }

\* What a receiver answers: a transport error, or a status code and body.
TransportError == [code |-> 0, body |-> "", err |-> TRUE]
Responses ==
  { TransportError,
    [code |-> 200, body |-> "ok", err |-> FALSE],
    [code |-> 500, body |-> "oops", err |-> FALSE] }

\* opt.Workers after New: the configured number of workers, 2 by default.
NumWorkers == 2
WorkerIds == 1..NumWorkers

\* The LIMIT processPendingLogs passes to get-pending-webhook-logs.
BatchLimit == 100

\* ------------------------------------------------------------------ state

VARIABLES
  webhooks,       \* webhooks table: id -> row
  nextWebhookId,  \* the SERIAL sequence of webhooks.id
  logs,           \* webhook_logs table: id -> row
  nextLogId,      \* the BIGSERIAL sequence of webhook_logs.id
  now,            \* the clock, in units of 30 seconds
  pc,             \* per worker: "idle", "deliver" (in its batch) or "update"
  batch,          \* per worker: the fetched rows not yet finalized
  req,            \* per worker: the request in flight
  resp,           \* per worker: the response of the request in flight
  hist,           \* per log id: the finalizations written, oldest first
  budget,         \* per log id: the largest max_retries its endpoint has had
  trig,           \* the Trigger calls made and the last call's arguments
  edits,          \* UpdateWebhook / DeleteWebhooks calls made
  sends,          \* delivery attempts started
  calc,           \* the evaluation of SpecBackoff or SpecSign
  opts,           \* Manager.opts: Workers, and the value New was given
  isRunning,      \* Manager.isRunning
  stopCh,         \* Manager.stopCh: "open" or "closed"
  wg,             \* Manager.wg: the WaitGroup counter
  call,           \* per caller: the Run or Close call it is in
  calls,          \* Run and Close calls begun, and Close calls returned
  gor,            \* the worker goroutines spawned, oldest first
  panicked        \* the process has panicked

vars ==
  << webhooks, nextWebhookId, logs, nextLogId, now, pc, batch, req, resp,
     hist, budget, trig, edits, sends, calc, opts, isRunning, stopCh, wg,
     call, calls, gor, panicked >>

workerVars == << pc, batch, req, resp >>
ghostVars == << hist, budget >>
adminVars == << webhooks, nextWebhookId, edits >>
lifeVars == << opts, isRunning, stopCh, wg, call, calls, gor, panicked >>
storeVars == << adminVars, logs, nextLogId, now, workerVars, ghostVars, trig,
                sends >>

\* The ids of a set in ascending order.
RECURSIVE SortedSeq(_)
SortedSeq(S) ==
  IF S = {} THEN << >>
  ELSE LET m == CHOOSE x \in S : \A y \in S : x <= y
       IN  << m >> \o SortedSeq(S \ {m})

\* No request in flight.
NoRequest ==
  [delivery |-> 0, url |-> "", event |-> "", body |-> << >>, timeout |-> 0,
   auth |-> [Authorization |-> << >>, Signature |-> << >>,
             Timestamp |-> << >>]]

\* No log row, the workers between ticks, nothing called yet.
InitPipeline ==
  /\ logs = << >>
  /\ nextLogId = 1
  /\ now = 0
  /\ pc = [w \in WorkerIds |-> "idle"]
  /\ batch = [w \in WorkerIds |-> << >>]
  /\ req = [w \in WorkerIds |-> NoRequest]
  /\ resp = [w \in WorkerIds |-> TransportError]
  /\ hist = << >>
  /\ budget = << >>
  /\ trig = [n |-> 0, event |-> "", data |-> "", ret |-> "nil",
             selectOK |-> TRUE, failed |-> {}]
  /\ edits = 0
  /\ sends = 0

InitStore ==
  /\ webhooks = << >>
  /\ nextWebhookId = 1
  /\ InitPipeline

\* The goroutines that call Run and Close.
Callers == 1..MaxCallers

\* No call in progress.
NoCall == [op |-> "", pc |-> "idle", i |-> 0]

\* New: opt.Workers <= 0 becomes 2.
New(workers) ==
  [Workers |-> IF workers <= 0 THEN 2 ELSE workers, given |-> workers]

\* The Manager New(workers) returns: not running, stopCh made and open, no
\* worker.
InitManager(workers) ==
  /\ opts = New(workers)
  /\ isRunning = FALSE
  /\ stopCh = "open"
  /\ wg = 0
  /\ call = [c \in Callers |-> NoCall]
  /\ calls = [run |-> 0, close |-> 0, closeReturned |-> 0]
  /\ gor = << >>
  /\ panicked = FALSE

Init ==
  /\ InitStore
  /\ InitManager(NumWorkers)
  /\ calc = [a |-> 0, state |-> "off", delay |-> Zero64]

\* ------------------------------------------------------------ admin (core)

Max(a, b) == IF a >= b THEN a ELSE b

\* The checks CreateWebhook and UpdateWebhook make before touching the store.
ValidWebhook(w) ==
  /\ strHasLen(w.name, 1, 200)
  /\ strHasLen(w.url, 1, 2000)
  /\ w.events # {}
  /\ \A e \in w.events : e \in AllWebhookEvents

\* The webhook_status enum of the status column: any other value makes the
\* statement fail.
IsWebhookStatus(s) == s \in {WebhookStatusEnabled, WebhookStatusDisabled}

DefaultMaxRetries == 3
DefaultTimeout == "30s"

\* The auth type CreateWebhook and UpdateWebhook store: an unknown one
\* becomes "none".
AuthType(t) ==
  IF t \in {WebhookAuthTypeNone, WebhookAuthTypeBasic, WebhookAuthTypeHMAC}
  THEN t ELSE WebhookAuthTypeNone

\* The defaults CreateWebhook fills in before the insert.
CreateDefaults(w) ==
  [w EXCEPT !.auth_type = AuthType(@),
            !.status = IF @ = "" THEN WebhookStatusEnabled ELSE @,
            !.max_retries = IF @ <= 0 THEN DefaultMaxRetries ELSE @,
            !.timeout = IF @ = "" THEN DefaultTimeout ELSE @]

\* The columns of a webhooks row that the statements are given.
WebhookRow(w) ==
  [name |-> w.name, url |-> w.url, status |-> w.status, events |-> w.events,
   auth_type |-> w.auth_type, auth_basic_user |-> w.auth_basic_user,
   auth_basic_pass |-> w.auth_basic_pass,
   auth_hmac_secret |-> w.auth_hmac_secret,
   max_retries |-> w.max_retries, timeout |-> w.timeout]

\* Core.CreateWebhook: validate, fill in the defaults, insert.
CreateWebhook(w) ==
  /\ nextWebhookId <= MaxWebhooks
  /\ LET d == CreateDefaults(w)
     IN  IF ValidWebhook(w) /\ IsWebhookStatus(d.status)
         THEN /\ webhooks' = webhooks @@ (nextWebhookId :> WebhookRow(d))
              /\ nextWebhookId' = nextWebhookId + 1
         ELSE UNCHANGED << webhooks, nextWebhookId >>
  /\ UNCHANGED << logs, nextLogId, now, workerVars, ghostVars, trig, edits,
                  sends, calc, lifeVars >>

\* update-webhook: every column is overwritten, but a password or secret
\* given as '' keeps the stored one.
UpdateWebhookRow(old, w) ==
  [WebhookRow(w) EXCEPT
     !.auth_basic_pass = IF w.auth_basic_pass = "" THEN old.auth_basic_pass
                         ELSE w.auth_basic_pass,
     !.auth_hmac_secret = IF w.auth_hmac_secret = "" THEN old.auth_hmac_secret
                          ELSE w.auth_hmac_secret]

\* Core.UpdateWebhook with the update-webhook statement: validate, then
\* overwrite the row; no default is applied to status, max_retries or
\* timeout.
UpdateWebhook(id, w) ==
  /\ edits < MaxEdits
  /\ edits' = edits + 1
  /\ IF ValidWebhook(w) /\ IsWebhookStatus(w.status) /\ id \in DOMAIN webhooks
     THEN /\ webhooks' =
               [webhooks EXCEPT ![id] =
                  UpdateWebhookRow(@, [w EXCEPT !.auth_type = AuthType(@)])]
          /\ budget' =
               [r \in DOMAIN budget |->
                  IF r \in DOMAIN logs /\ logs[r].webhook_id = id
                  THEN Max(budget[r], w.max_retries) ELSE budget[r]]
     ELSE UNCHANGED << webhooks, budget >>
  /\ UNCHANGED << nextWebhookId, logs, nextLogId, now, workerVars, hist, trig,
                  sends, calc, lifeVars >>

\* Core.DeleteWebhooks with the delete-webhooks statement; webhook_logs
\* references webhooks ON DELETE CASCADE.
DeleteWebhooks(ids) ==
  /\ edits < MaxEdits
  /\ edits' = edits + 1
  /\ webhooks' = [id \in DOMAIN webhooks \ ids |-> webhooks[id]]
  /\ logs' = [r \in {x \in DOMAIN logs : logs[x].webhook_id \notin ids}
                |-> logs[r]]
  /\ UNCHANGED << nextWebhookId, nextLogId, now, workerVars, ghostVars, trig,
                  sends, calc, lifeVars >>

\* strings.Repeat(s, n).
RECURSIVE Repeat(_, _)
Repeat(s, n) == IF n = 0 THEN "" ELSE s \o Repeat(s, n - 1)

\* The bullet character U+2022 that masks a secret.
Bullet == "(U+2022)"

\* Core.GetWebhooks(id): the row with that id, or every row if id is 0,
\* newest first, each non-empty password and secret replaced by eight
\* bullets.
GetWebhooks(id) ==
  LET ids == SortedSeq({i \in DOMAIN webhooks : id = 0 \/ i = id})
      n == Len(ids)
      out == [k \in 1..n |-> [id |-> ids[n + 1 - k]] @@ webhooks[ids[n + 1 - k]]]
  IN  [k \in 1..n |->
         [out[k] EXCEPT
            !.auth_basic_pass = IF @ # "" THEN Repeat(Bullet, 8) ELSE @,
            !.auth_hmac_secret = IF @ # "" THEN Repeat(Bullet, 8) ELSE @]]

\* Core.GetWebhook(id), for an id that exists.
GetWebhook(id) == GetWebhooks(id)[1]

\* An admin client reads endpoint id (GET /api/webhooks/:id) and sends what
\* it got back unchanged (PUT /api/webhooks/:id).
ReadWriteBack(id) ==
  /\ GetWebhooks(id) # << >>
  /\ UpdateWebhook(id, GetWebhook(id))

\* ---------------------------------------------------------------- Trigger

\* get-webhooks-by-event without its status filter.
GetWebhooksByEventAnyStatus(event) ==
  SortedSeq({id \in DOMAIN webhooks : event \in webhooks[id].events})

\* get-webhooks-by-event: the enabled endpoints subscribed to the event,
\* in creation order.
GetWebhooksByEvent(event) ==
  SortedSeq({id \in DOMAIN webhooks :
               /\ webhooks[id].status = WebhookStatusEnabled
               /\ event \in webhooks[id].events})

\* A json.Marshal that accepts every value.
CanMarshalAnything(data) == TRUE

\* json.Marshal of models.WebhookEvent: the fields in declaration order.
CanMarshal(data) == data # Unserializable
Marshal(event, timestamp, data) ==
  << "event", event, "timestamp", timestamp, "data", data >>

\* create-webhook-log: the inserted row; the columns the statement does
\* not name take their defaults.
NewLog(webhook_id, event, url, payload, status, next_retry_at) ==
  [webhook_id |-> webhook_id, event |-> event, url |-> url,
   payload |-> payload, status |-> status, response_code |-> Null,
   response_body |-> "", error |-> "", attempts |-> 0,
   next_retry_at |-> next_retry_at, created_at |-> now]

\* The insert loop of Trigger returning at the first insert that fails.
RECURSIVE InsertLogsAbort(_, _, _, _, _, _)
InsertLogsAbort(tbl, id, whs, failed, event, payload) ==
  IF whs = << >> THEN tbl
  ELSE LET wh == Head(whs)
       IN  IF wh \in failed
           THEN tbl
           ELSE InsertLogsAbort(
                  tbl @@ (id :> NewLog(wh, event, webhooks[wh].url, payload,
                                       WebhookLogStatusPending, Null)),
                  id + 1, Tail(whs), failed, event, payload)

\* The rows Trigger inserts for the endpoints whs, in order, of which the
\* inserts for the endpoints in failed are rejected by the store.
RECURSIVE InsertLogs(_, _, _, _, _, _)
InsertLogs(tbl, id, whs, failed, event, payload) ==
  IF whs = << >> THEN tbl
  ELSE LET wh == Head(whs)
       IN  IF wh \in failed
           THEN InsertLogs(tbl, id, Tail(whs), failed, event, payload)
           ELSE InsertLogs(
                  tbl @@ (id :> NewLog(wh, event, webhooks[wh].url, payload,
                                       WebhookLogStatusPending, Null)),
                  id + 1, Tail(whs), failed, event, payload)

\* Manager.Trigger(event, data).  selectOK: the store answers the endpoint
\* query; failed: the endpoints whose insert the store rejects.
TriggerStep(event, data, selectOK, failed) ==
  /\ LET whs == GetWebhooksByEvent(event)
         stored == {i \in 1..Len(whs) : whs[i] \notin failed}
         ret == IF ~selectOK THEN "err"
                ELSE IF Len(whs) = 0 THEN "nil"
                ELSE IF ~CanMarshal(data) THEN "err"
                ELSE "nil"
     IN  /\ trig' = [n |-> trig.n + 1, event |-> event, data |-> data,
                     ret |-> ret, selectOK |-> selectOK, failed |-> failed]
         /\ IF selectOK /\ Len(whs) > 0 /\ CanMarshal(data)
            THEN /\ logs' = InsertLogs(logs, nextLogId, whs, failed, event,
                                       Marshal(event, now, data))
                 /\ nextLogId' = nextLogId + Cardinality(stored)
                 /\ hist' = [r \in DOMAIN logs' \cup DOMAIN hist |->
                               IF r \in DOMAIN hist THEN hist[r] ELSE << >>]
                 /\ budget' = [r \in DOMAIN logs' \cup DOMAIN budget |->
                                 IF r \in DOMAIN budget THEN budget[r]
                                 ELSE webhooks[logs'[r].webhook_id].max_retries]
            ELSE UNCHANGED << logs, nextLogId, ghostVars >>
  /\ UNCHANGED << adminVars, now, workerVars, sends, calc, lifeVars >>

\* The rows a Trigger call for event would insert, of which the inserts
\* for the endpoints in failed are rejected.
Inserted(event, failed) ==
  {i \in 1..Len(GetWebhooksByEvent(event)) :
     GetWebhooksByEvent(event)[i] \notin failed}

\* The same, as long as the calls and the rows explored are not used up.
TriggerCall(event, data, selectOK, failed) ==
  /\ trig.n < MaxTriggers
  /\ nextLogId + Cardinality(Inserted(event, failed)) - 1 <= MaxLogs
  /\ TriggerStep(event, data, selectOK, failed)

Trigger(event, data) == TriggerCall(event, data, TRUE, {})

\* The event name and the data of a test delivery: a message and the id
\* and name of the endpoint.
TestEvent == "webhook.test"
TestData(wh) ==
  "This is a test webhook delivery from listmonk:" \o ToString(wh.id)
     \o ":" \o wh.name

\* App.TestWebhook: look the endpoint up, and if it exists call Trigger
\* with the test event.
TestWebhook(id) ==
  /\ GetWebhooks(id) # << >>
  /\ Trigger(TestEvent, TestData(GetWebhook(id)))

\* ---------------------------------------------------------- authentication

Digits == << "0", "1", "2", "3", "4", "5", "6", "7", "8", "9" >>

\* fmt.Sprintf("%d", n): the decimal digits of n, most significant first.
RECURSIVE FormatInt(_)
FormatInt(n) ==
  IF n < 0 THEN << "-" >> \o FormatInt(0 - n)
  ELSE IF n < 10 THEN << Digits[n + 1] >>
  ELSE FormatInt(n \div 10) \o << Digits[(n % 10) + 1] >>

\* hmac.New(sha256.New, key) over msg, hex encoded.  The digest is kept as
\* the pair it is computed from: two digests are equal exactly if key and
\* message are.
HmacSha256Hex(key, msg) == [key |-> key, msg |-> msg]

\* Manager.computeHMAC: "sha256=" and the digest of "<timestamp>.<payload>".
computeHMAC(payload, secret, timestamp) ==
  << "sha256=",
     HmacSha256Hex(secret, FormatInt(timestamp) \o << "." >> \o payload) >>

\* No header set.
NoHeader == << >>

\* The authentication switch of deliverWebhook, with the header time stamp
\* taken from a second reading of the clock, one second on.
applyAuthTwoClocks(l, unix) ==
  CASE l.auth_type = WebhookAuthTypeBasic ->
         [Authorization |-> << "Basic", l.auth_basic_user, l.auth_basic_pass >>,
          Signature |-> NoHeader, Timestamp |-> NoHeader]
    [] l.auth_type = WebhookAuthTypeHMAC ->
         [Authorization |-> NoHeader,
          Signature |-> computeHMAC(l.payload, l.auth_hmac_secret, unix),
          Timestamp |-> FormatInt(unix + 1)]
    [] OTHER ->
         [Authorization |-> NoHeader, Signature |-> NoHeader,
          Timestamp |-> NoHeader]

\* The authentication switch of deliverWebhook for fetched row l when
\* time.Now().Unix() is unix: the Authorization, X-Listmonk-Signature and
\* X-Listmonk-Timestamp headers of the request.
applyAuth(l, unix) ==
  CASE l.auth_type = WebhookAuthTypeBasic ->
         [Authorization |-> << "Basic", l.auth_basic_user, l.auth_basic_pass >>,
          Signature |-> NoHeader, Timestamp |-> NoHeader]
    [] l.auth_type = WebhookAuthTypeHMAC ->
         LET timestamp == unix
             signature == computeHMAC(l.payload, l.auth_hmac_secret, timestamp)
         IN  [Authorization |-> NoHeader, Signature |-> signature,
              Timestamp |-> FormatInt(timestamp)]
    [] OTHER ->
         [Authorization |-> NoHeader, Signature |-> NoHeader,
          Timestamp |-> NoHeader]

\* ---------------------------------------------------------------- workers

Min(a, b) == IF a <= b THEN a ELSE b

\* ORDER BY created_at of the log rows S, oldest first; rows created at the
\* same instant in the order of their ids.
RECURSIVE OrderByCreatedAt(_)
OrderByCreatedAt(S) ==
  IF S = {} THEN << >>
  ELSE LET m == CHOOSE x \in S : \A y \in S :
                  \/ logs[x].created_at < logs[y].created_at
                  \/ logs[x].created_at = logs[y].created_at /\ x <= y
       IN  << m >> \o OrderByCreatedAt(S \ {m})

\* The join taking the url from the endpoint instead of the log row.
pendingLogLiveUrl(r) ==
  LET w == webhooks[logs[r].webhook_id]
  IN  [id |-> r, event |-> logs[r].event, url |-> w.url,
       payload |-> logs[r].payload, attempts |-> logs[r].attempts,
       created_at |-> logs[r].created_at,
       max_retries |-> w.max_retries, timeout |-> w.timeout,
       auth_type |-> w.auth_type, auth_basic_user |-> w.auth_basic_user,
       auth_basic_pass |-> w.auth_basic_pass,
       auth_hmac_secret |-> w.auth_hmac_secret]

\* The row of the get-pending-webhook-logs join for log r: the log columns
\* the worker reads, and the endpoint's current retry budget, timeout and
\* authentication settings.
pendingLog(r) ==
  LET w == webhooks[logs[r].webhook_id]
  IN  [id |-> r, event |-> logs[r].event, url |-> logs[r].url,
       payload |-> logs[r].payload, attempts |-> logs[r].attempts,
       created_at |-> logs[r].created_at,
       max_retries |-> w.max_retries, timeout |-> w.timeout,
       auth_type |-> w.auth_type, auth_basic_user |-> w.auth_basic_user,
       auth_basic_pass |-> w.auth_basic_pass,
       auth_hmac_secret |-> w.auth_hmac_secret]

\* get-pending-webhook-logs without the next_retry_at <= NOW() branch of its
\* predicate: only rows never scheduled are read.
GetPendingWebhookLogsUnscheduled(limit) ==
  LET due == {r \in DOMAIN logs :
                /\ logs[r].webhook_id \in DOMAIN webhooks
                /\ logs[r].status = WebhookLogStatusPending
                /\ logs[r].next_retry_at = Null}
      ids == OrderByCreatedAt(due)
  IN  [i \in 1..Min(limit, Len(ids)) |-> pendingLog(ids[i])]

\* get-pending-webhook-logs reading only the rows of enabled endpoints.
GetPendingWebhookLogsEnabledOnly(limit) ==
  LET due == {r \in DOMAIN logs :
                /\ logs[r].webhook_id \in DOMAIN webhooks
                /\ webhooks[logs[r].webhook_id].status = WebhookStatusEnabled
                /\ logs[r].status = WebhookLogStatusPending
                /\ (logs[r].next_retry_at = Null \/ logs[r].next_retry_at <= now)}
      ids == OrderByCreatedAt(due)
  IN  [i \in 1..Min(limit, Len(ids)) |-> pendingLog(ids[i])]

\* get-pending-webhook-logs with ORDER BY created_at DESC.
GetPendingWebhookLogsNewestFirst(limit) ==
  LET due == {r \in DOMAIN logs :
                /\ logs[r].webhook_id \in DOMAIN webhooks
                /\ logs[r].status = WebhookLogStatusPending
                /\ (logs[r].next_retry_at = Null \/ logs[r].next_retry_at <= now)}
      ids == OrderByCreatedAt(due)
      n == Len(ids)
  IN  [i \in 1..Min(limit, n) |-> pendingLog(ids[n + 1 - i])]

\* get-pending-webhook-logs: the pending rows that are due, joined with
\* their endpoint, oldest first, at most limit of them.
GetPendingWebhookLogs(limit) ==
  LET due == {r \in DOMAIN logs :
                /\ logs[r].webhook_id \in DOMAIN webhooks
                /\ logs[r].status = WebhookLogStatusPending
                /\ (logs[r].next_retry_at = Null \/ logs[r].next_retry_at <= now)}
      ids == OrderByCreatedAt(due)
  IN  [i \in 1..Min(limit, Len(ids)) |-> pendingLog(ids[i])]

\* An http.NewRequest that accepts every URL.
RequestBuildsAny(url) == TRUE

\* http.NewRequest fails on an URL it cannot parse.
RequestBuilds(url) == url # BadURL

\* time.ParseDuration of the endpoint's timeout, in seconds; 30 seconds if
\* it cannot be parsed.
clientTimeout(s) ==
  CASE s = "5s" -> 5
    [] s = "30s" -> 30
    [] OTHER -> 30

\* time.Now().Unix() when the clock shows t: one unit of the clock is 30
\* seconds.
Unix(t) == 30 * t

\* The POST deliverWebhook builds for fetched row l: the target, the body,
\* the X-Listmonk-Event and X-Listmonk-Delivery headers, the authentication
\* headers, and the timeout of the client that sends it.
NewRequest(l) ==
  [delivery |-> l.id, url |-> l.url, event |-> l.event, body |-> l.payload,
   timeout |-> clientTimeout(l.timeout), auth |-> applyAuth(l, Unix(now))]

\* One unit of the clock, and a duration as a number of such units.
TickLen == Mul64(FromNat(30), Second)
Ticks(d) == CHOOSE n \in 0..240 : Mul64(FromNat(n), TickLen) = d
BackoffTicks == [a \in 0..8 |-> Ticks(backoff(a))]

\* The arguments of one update-webhook-log statement.
UpdateArgs(id, status, code, body, error, attempts, next_retry_at) ==
  [id |-> id, status |-> status, response_code |-> code,
   response_body |-> body, error |-> error, attempts |-> attempts,
   next_retry_at |-> next_retry_at]

updateLogSuccess(l, statusCode, responseBody) ==
  UpdateArgs(l.id, WebhookLogStatusSuccess, statusCode, responseBody, "",
             l.attempts + 1, Null)

updateLogFailed(l, statusCode, responseBody, errMsg) ==
  UpdateArgs(l.id, WebhookLogStatusFailed, statusCode, responseBody, errMsg,
             l.attempts + 1, Null)

\* handleDeliveryError allowing one retry more than the budget.
handleDeliveryErrorOffByOne(l, statusCode, responseBody, errMsg) ==
  LET attempts == l.attempts + 1
  IN  IF attempts > l.max_retries + 1
      THEN updateLogFailed(l, statusCode, responseBody, errMsg)
      ELSE UpdateArgs(l.id, WebhookLogStatusPending, statusCode, responseBody,
                      errMsg, attempts, now + BackoffTicks[attempts])

\* handleDeliveryError scheduling every retry 30 seconds on.
handleDeliveryErrorFixedDelay(l, statusCode, responseBody, errMsg) ==
  LET attempts == l.attempts + 1
  IN  IF attempts > l.max_retries
      THEN updateLogFailed(l, statusCode, responseBody, errMsg)
      ELSE UpdateArgs(l.id, WebhookLogStatusPending, statusCode, responseBody,
                      errMsg, attempts, now + 1)

handleDeliveryError(l, statusCode, responseBody, errMsg) ==
  LET attempts == l.attempts + 1
  IN  IF attempts > l.max_retries
      THEN updateLogFailed(l, statusCode, responseBody, errMsg)
      ELSE UpdateArgs(l.id, WebhookLogStatusPending, statusCode, responseBody,
                      errMsg, attempts, now + BackoffTicks[attempts])

\* update-webhook-log without its next_retry_at column.
UpdateWebhookLogKeepRetry(tbl, u) ==
  IF u.id \in DOMAIN tbl
  THEN [tbl EXCEPT ![u.id] =
          [@ EXCEPT !.status = u.status, !.response_code = u.response_code,
                    !.response_body = u.response_body, !.error = u.error,
                    !.attempts = u.attempts]]
  ELSE tbl

\* update-webhook-log: overwrite the outcome columns of the row with that
\* id, if there is one.
UpdateWebhookLog(tbl, u) ==
  IF u.id \in DOMAIN tbl
  THEN [tbl EXCEPT ![u.id] =
          [@ EXCEPT !.status = u.status, !.response_code = u.response_code,
                    !.response_body = u.response_body, !.error = u.error,
                    !.attempts = u.attempts,
                    !.next_retry_at = u.next_retry_at]]
  ELSE tbl

\* The class of a finished attempt, for the delivery history.
Is2xx(code) == code >= 200 /\ code < 300

\* Worker w writes update u for the head of its batch (after an attempt of
\* class cls) and moves on to the next fetched row.
WriteAndAdvance(w, u, cls) ==
  LET l == Head(batch[w])
  IN  /\ logs' = UpdateWebhookLog(logs, u)
      /\ req' = [req EXCEPT ![w] = NoRequest]
      /\ hist' = IF l.id \in DOMAIN logs
                 THEN [hist EXCEPT ![l.id] =
                         Append(@, [k |-> l.attempts, m |-> l.max_retries,
                                    class |-> cls])]
                 ELSE hist
      /\ batch' = [batch EXCEPT ![w] = Tail(@)]
      /\ pc' = [pc EXCEPT ![w] = IF Len(batch[w]) > 1 THEN "deliver" ELSE "idle"]
      /\ resp' = [resp EXCEPT ![w] = TransportError]

\* Manager.processPendingLogs up to its loop, reading at most limit rows: a
\* tick of worker w reads the due rows.
fetchPendingLogs(w, limit) ==
  /\ pc[w] = "idle"
  /\ LET rows == GetPendingWebhookLogs(limit)
     IN  /\ batch' = [batch EXCEPT ![w] = rows]
         /\ pc' = [pc EXCEPT ![w] = IF rows = << >> THEN "idle" ELSE "deliver"]
  /\ UNCHANGED << adminVars, logs, nextLogId, now, req, resp, ghostVars, trig,
                  sends, calc, lifeVars >>

processPendingLogs(w) == fetchPendingLogs(w, BatchLimit)

\* Manager.deliverWebhook up to the response: build the request for the
\* next fetched row and make the round trip; a request that cannot be
\* built is written off at once.
deliverWebhookStep(w) ==
  /\ pc[w] = "deliver"
  /\ sends' = sends + 1
  /\ LET l == Head(batch[w])
     IN  IF ~RequestBuilds(l.url)
         THEN WriteAndAdvance(w, updateLogFailed(l, 0, "", "error creating request"),
                              "build")
         ELSE /\ req' = [req EXCEPT ![w] = NewRequest(l)]
              /\ \E r \in Responses : resp' = [resp EXCEPT ![w] = r]
              /\ pc' = [pc EXCEPT ![w] = "update"]
              /\ UNCHANGED << logs, hist, batch >>
  /\ UNCHANGED << adminVars, nextLogId, now, budget, trig, calc, lifeVars >>

\* The same, as long as the attempts explored are not used up.
deliverWebhook(w) == sends < MaxSends /\ deliverWebhookStep(w)

\* Manager.deliverWebhook from the response on: classify it and write the
\* outcome to the row.
recordOutcome(w) ==
  /\ pc[w] = "update"
  /\ LET l == Head(batch[w])
         r == resp[w]
     IN  IF r.err
         THEN WriteAndAdvance(w, handleDeliveryError(l, 0, "", "request failed"),
                              "transport")
         ELSE IF Is2xx(r.code)
         THEN WriteAndAdvance(w, updateLogSuccess(l, r.code, r.body), "2xx")
         ELSE WriteAndAdvance(
                w, handleDeliveryError(l, r.code, r.body, "non-2xx status"),
                "non2xx")
  /\ UNCHANGED << adminVars, nextLogId, now, budget, trig, sends, calc, lifeVars >>

\* The instants at which a scheduled retry falls due.
RetryTimes ==
  {logs[r].next_retry_at : r \in {x \in DOMAIN logs :
      logs[x].status = WebhookLogStatusPending /\ logs[x].next_retry_at > now}}

\* Time passes, up to the instant the next scheduled retry falls due.  The
\* clock is read only by the due test and for time stamps, so the instants
\* in between are not told apart.
AdvanceStep ==
  /\ RetryTimes # {}
  /\ now' = CHOOSE t \in RetryTimes : \A u \in RetryTimes : t <= u
  /\ UNCHANGED << adminVars, logs, nextLogId, workerVars, ghostVars, trig,
                  sends, calc, lifeVars >>

\* The same, as long as the clock has not reached the end of the time
\* explored.
Advance == AdvanceStep /\ now' <= MaxNow

\* --------------------------------------------------------- specification

Next ==
  \/ \E w \in WebhookInputs : CreateWebhook(w)
  \/ \E id \in 1..MaxWebhooks, w \in WebhookInputs : UpdateWebhook(id, w)
  \/ \E ids \in (SUBSET (1..MaxWebhooks)) \ {{}} : DeleteWebhooks(ids)
  \/ \E e \in TriggerEvents, d \in TriggerData : Trigger(e, d)
  \/ \E w \in WorkerIds : processPendingLogs(w)
  \/ \E w \in WorkerIds : deliverWebhook(w)
  \/ \E w \in WorkerIds : recordOutcome(w)
  \/ Advance

Spec == Init /\ [][Next]_vars

\* Manager.Trigger against a store that fails: the endpoint query fails
\* (selectOK false), or the inserts for the endpoints in failed do.
TriggerStoreError(event, data, selectOK, failed) ==
  /\ trig.n < MaxTriggers
  /\ ~selectOK \/ failed # {}
  /\ selectOK \/ failed = {}
  /\ \A id \in failed : \E i \in 1..Len(GetWebhooksByEvent(event)) :
        GetWebhooksByEvent(event)[i] = id
  /\ TriggerCall(event, data, selectOK, failed)

\* Manager.processPendingLogs when get-pending-webhook-logs fails: the
\* error is logged and the tick is over.
processPendingLogsStoreError(w) ==
  /\ pc[w] = "idle"
  /\ UNCHANGED vars

\* Manager.deliverWebhook from the response on when update-webhook-log
\* fails: the error is logged, nothing is written, and the worker goes on
\* to the next fetched row.
recordOutcomeStoreError(w) ==
  /\ pc[w] = "update"
  /\ req' = [req EXCEPT ![w] = NoRequest]
  /\ batch' = [batch EXCEPT ![w] = Tail(@)]
  /\ pc' = [pc EXCEPT ![w] = IF Len(batch[w]) > 1 THEN "deliver" ELSE "idle"]
  /\ resp' = [resp EXCEPT ![w] = TransportError]
  /\ UNCHANGED << adminVars, logs, nextLogId, now, ghostVars, trig, sends,
                  calc, lifeVars >>

NextFault ==
  \/ Next
  \/ \E e \in TriggerEvents, d \in TriggerData, selectOK \in BOOLEAN,
        failed \in SUBSET (1..MaxWebhooks) :
        TriggerStoreError(e, d, selectOK, failed)
  \/ \E w \in WorkerIds : processPendingLogsStoreError(w)
  \/ \E w \in WorkerIds : recordOutcomeStoreError(w)

\* The system with a store that may reject statements.
SpecFault == Init /\ [][NextFault]_vars

\* The backoff computation on its own, for every attempt number up to
\* MaxAttempt.
InitBackoff ==
  /\ InitStore
  /\ InitManager(NumWorkers)
  /\ calc \in {[a |-> a, state |-> "ready", delay |-> Zero64] : a \in 1..MaxAttempt}

EvalBackoff ==
  /\ calc.state = "ready"
  /\ calc' = [calc EXCEPT !.state = "done", !.delay = backoff(calc.a)]
  /\ UNCHANGED << adminVars, logs, nextLogId, now, workerVars, ghostVars, trig,
                  sends, lifeVars >>

NextBackoff == EvalBackoff

SpecBackoff == InitBackoff /\ [][NextBackoff]_vars

\* The admin API on its own: endpoints are created, edited, read and
\* written back, deleted and tested; no event is triggered and no worker
\* runs.
NextAdmin ==
  \/ \E w \in WebhookInputs : CreateWebhook(w)
  \/ \E id \in 1..MaxWebhooks, w \in WebhookInputs : UpdateWebhook(id, w)
  \/ \E id \in 1..MaxWebhooks : ReadWriteBack(id)
  \/ \E ids \in (SUBSET (1..MaxWebhooks)) \ {{}} : DeleteWebhooks(ids)
  \/ \E id \in 1..MaxWebhooks : TestWebhook(id)

SpecAdmin == Init /\ [][NextAdmin]_vars

\* ------------------------------------------------------- delivery liveness

\* A tick of worker w with the LIMIT of 100 scaled down to LiveBatchLimit,
\* so that a read leaves due rows behind.
processPendingLogsScaled(w) == fetchPendingLogs(w, LiveBatchLimit)

\* Two endpoints as two CreateWebhook calls leave them: the first with a
\* retry budget of 1, the second with an URL no request can be built for.
InitLive ==
  /\ \E a, c \in WebhookInputs :
       /\ ValidWebhook(a) /\ a.status = "" /\ a.max_retries = 1
       /\ ValidWebhook(c) /\ c.url = BadURL
       /\ webhooks = << WebhookRow(CreateDefaults(a)),
                        WebhookRow(CreateDefaults(c)) >>
  /\ nextWebhookId = 3
  /\ InitPipeline
  /\ InitManager(NumWorkers)
  /\ calc = [a |-> 0, state |-> "off", delay |-> Zero64]

NextLive ==
  \/ \E e \in TriggerEvents, d \in TriggerData : Trigger(e, d)
  \/ \E w \in WorkerIds : processPendingLogsScaled(w)
  \/ \E w \in WorkerIds : deliverWebhookStep(w)
  \/ \E w \in WorkerIds : recordOutcome(w)
  \/ AdvanceStep

\* The workers run for ever: each worker's ticker keeps firing, every
\* delivery it starts ends (with a response or by the client timeout), and
\* time passes.  No endpoint is edited or deleted and the store answers.
FairLive ==
  /\ \A w \in WorkerIds :
       /\ WF_vars(processPendingLogsScaled(w))
       /\ WF_vars(deliverWebhookStep(w))
       /\ WF_vars(recordOutcome(w))
  /\ WF_vars(AdvanceStep)

SpecLive == InitLive /\ [][NextLive]_vars /\ FairLive

\* ------------------------------------------------------------------ batch

\* A tick of worker w with the LIMIT of 100 scaled down to BatchScale.
processPendingLogsBatch(w) == fetchPendingLogs(w, BatchScale)

\* A Trigger call with serializable data against a store that answers, as
\* long as the calls and rows of the batch model are not used up.
TriggerBatch(event) ==
  /\ trig.n < BatchTriggers
  /\ nextLogId + Cardinality(Inserted(event, {})) - 1 <= BatchLogs
  /\ TriggerStep(event, "d1", TRUE, {})

\* Two endpoints as two CreateWebhook calls leave them, both with an URL
\* a request can be built for: the first subscribed to one of the events
\* triggered, the second to both.
InitBatch ==
  /\ \E a, b \in WebhookInputs :
       /\ ValidWebhook(a) /\ a.status = "" /\ a.max_retries = 1
       /\ ValidWebhook(b) /\ b.status = WebhookStatusEnabled
       /\ b.max_retries = 2
       /\ webhooks = << WebhookRow(CreateDefaults(a)),
                        WebhookRow(CreateDefaults(b)) >>
  /\ nextWebhookId = 3
  /\ InitPipeline
  /\ InitManager(NumWorkers)
  /\ calc = [a |-> 0, state |-> "off", delay |-> Zero64]

\* Events are triggered at different times while the workers poll, so
\* that rows of different age are due together, more of them than one read
\* returns.
NextBatch ==
  \/ \E e \in TriggerEvents : TriggerBatch(e)
  \/ \E w \in WorkerIds : processPendingLogsBatch(w)
  \/ \E w \in WorkerIds : deliverWebhook(w)
  \/ \E w \in WorkerIds : recordOutcome(w)
  \/ Advance

SpecBatch == InitBatch /\ [][NextBatch]_vars

\* -------------------------------------------------------------- lifecycle

\* The values of opt.Workers a manager is made with.
ConfiguredWorkers == {0, 1}

\* A worker goroutine as `go m.worker(i)` starts it: at the select of its
\* loop, no batch.  lateRead: it has read the pending rows with stopCh
\* closed; lateAttempt: it has started an attempt with stopCh closed in a
\* batch read before.
NewWorker ==
  [st |-> "select", left |-> 0, lateRead |-> FALSE, lateAttempt |-> FALSE]

\* Manager.Run without the isRunning test.
RunUnguarded(c) ==
  /\ ~panicked
  /\ call[c].pc = "idle"
  /\ calls.run + calls.close < MaxCalls
  /\ calls' = [calls EXCEPT !.run = @ + 1]
  /\ isRunning' = TRUE
  /\ call' = [call EXCEPT ![c] = [op |-> "Run", pc |-> "spawn", i |-> 0]]
  /\ UNCHANGED << storeVars, calc, opts, stopCh, wg, gor, panicked >>

\* Manager.Run, the section under m.mu: return if running, else set the
\* flag and go on to start the workers.
Run(c) ==
  /\ ~panicked
  /\ call[c].pc = "idle"
  /\ calls.run + calls.close < MaxCalls
  /\ calls' = [calls EXCEPT !.run = @ + 1]
  /\ IF isRunning
     THEN UNCHANGED << isRunning, call >>
     ELSE /\ isRunning' = TRUE
          /\ call' = [call EXCEPT ![c] = [op |-> "Run", pc |-> "spawn", i |-> 0]]
  /\ UNCHANGED << storeVars, calc, opts, stopCh, wg, gor, panicked >>

\* Manager.Run, one round of its loop: wg.Add(1) and go m.worker(i); the
\* call returns after round opts.Workers.
RunSpawn(c) ==
  /\ ~panicked
  /\ call[c].pc = "spawn"
  /\ wg' = wg + 1
  /\ gor' = Append(gor, NewWorker)
  /\ call' = [call EXCEPT ![c] =
                IF call[c].i + 1 < opts.Workers
                THEN [@ EXCEPT !.i = @ + 1] ELSE NoCall]
  /\ UNCHANGED << storeVars, calc, opts, isRunning, stopCh, calls, panicked >>

\* Manager.Close, the section under m.mu: return if not running, else
\* clear the flag and go on to stop the workers.
Close(c) ==
  /\ ~panicked
  /\ call[c].pc = "idle"
  /\ calls.run + calls.close < MaxCalls
  /\ IF ~isRunning
     THEN /\ calls' = [calls EXCEPT !.close = @ + 1, !.closeReturned = @ + 1]
          /\ UNCHANGED << isRunning, call >>
     ELSE /\ calls' = [calls EXCEPT !.close = @ + 1]
          /\ isRunning' = FALSE
          /\ call' = [call EXCEPT ![c] = [op |-> "Close", pc |-> "close", i |-> 0]]
  /\ UNCHANGED << storeVars, calc, opts, stopCh, wg, gor, panicked >>

\* Manager.Close: close(m.stopCh).  Closing a closed channel panics.
CloseStop(c) ==
  /\ ~panicked
  /\ call[c].pc = "close"
  /\ IF stopCh = "closed"
     THEN /\ panicked' = TRUE
          /\ UNCHANGED << stopCh, call >>
     ELSE /\ stopCh' = "closed"
          /\ call' = [call EXCEPT ![c].pc = "wait"]
          /\ UNCHANGED panicked
  /\ UNCHANGED << storeVars, calc, opts, isRunning, wg, calls, gor >>

\* Manager.Close: m.wg.Wait() has returned, and so does the call.
CloseWait(c) ==
  /\ ~panicked
  /\ call[c].pc = "wait"
  /\ wg = 0
  /\ call' = [call EXCEPT ![c] = NoCall]
  /\ calls' = [calls EXCEPT !.closeReturned = @ + 1]
  /\ UNCHANGED << storeVars, calc, opts, isRunning, stopCh, wg, gor, panicked >>

\* Manager.worker, the select taking <-m.stopCh: return, and the deferred
\* m.wg.Done().
workerStop(g) ==
  /\ ~panicked
  /\ gor[g].st = "select"
  /\ stopCh = "closed"
  /\ gor' = [gor EXCEPT ![g].st = "exited"]
  /\ wg' = wg - 1
  /\ UNCHANGED << storeVars, calc, opts, isRunning, stopCh, call, calls,
                  panicked >>

\* Manager.worker, the select taking <-ticker.C (select picks among the
\* ready cases at random, whether or not stopCh is closed), and
\* processPendingLogs up to its loop: the read returns n rows (none also
\* when it fails), and the attempt for the first row starts.
workerTick(g) ==
  /\ ~panicked
  /\ gor[g].st = "select"
  /\ \E n \in 0..MaxBatch :
       gor' = [gor EXCEPT ![g] =
                 [@ EXCEPT !.st = IF n > 0 THEN "http" ELSE "select",
                           !.left = IF n > 0 THEN n ELSE 0,
                           !.lateRead = @ \/ stopCh = "closed"]]
  /\ UNCHANGED << storeVars, calc, opts, isRunning, stopCh, wg, call, calls,
                  panicked >>

\* Manager.processPendingLogs, one round of its loop: the attempt in flight
\* ends and its outcome is written; the attempt for the next row of the
\* batch starts, or the worker is back at its select.
workerDeliver(g) ==
  /\ ~panicked
  /\ gor[g].st = "http"
  /\ gor' = [gor EXCEPT ![g] =
               [@ EXCEPT !.st = IF gor[g].left > 1 THEN "http" ELSE "select",
                         !.left = @ - 1,
                         !.lateAttempt =
                            @ \/ (gor[g].left > 1 /\ stopCh = "closed"
                                    /\ ~gor[g].lateRead)]]
  /\ UNCHANGED << storeVars, calc, opts, isRunning, stopCh, wg, call, calls,
                  panicked >>

InitLife ==
  /\ InitStore
  /\ \E n \in ConfiguredWorkers : InitManager(n)
  /\ calc = [a |-> 0, state |-> "off", delay |-> Zero64]

NextLife ==
  \/ \E c \in Callers : Run(c)
  \/ \E c \in Callers : RunSpawn(c)
  \/ \E c \in Callers : Close(c)
  \/ \E c \in Callers : CloseStop(c)
  \/ \E c \in Callers : CloseWait(c)
  \/ \E g \in DOMAIN gor : workerStop(g)
  \/ \E g \in DOMAIN gor : workerTick(g)
  \/ \E g \in DOMAIN gor : workerDeliver(g)

\* The manager's lifecycle: Run and Close called from concurrent
\* goroutines, and the worker goroutines they start and stop.
SpecLife == InitLife /\ [][NextLife]_vars

\* ------------------------------------------------- authentication headers

\* Fetched rows, as far as authentication reads them, and clock readings
\* (seconds since 1970) of every number of digits.
AuthRows ==
  [payload : {Marshal(e, 0, "d1") : e \in TriggerEvents},
   auth_type : {WebhookAuthTypeNone, WebhookAuthTypeBasic, WebhookAuthTypeHMAC},
   auth_basic_user : {"u"}, auth_basic_pass : {"p"},
   auth_hmac_secret : {"", "s3cret"}]
UnixTimes == {0, 9, 10, 1762300800, 1999999999}

InitSign ==
  /\ InitStore
  /\ InitManager(NumWorkers)
  /\ calc \in [state : {"ready"}, l : AuthRows, unix : UnixTimes,
                headers : {applyAuth([auth_type |-> WebhookAuthTypeNone], 0)}]

EvalSign ==
  /\ calc.state = "ready"
  /\ calc' = [calc EXCEPT !.state = "done",
                          !.headers = applyAuth(calc.l, calc.unix)]
  /\ UNCHANGED << storeVars, lifeVars >>

NextSign == EvalSign

\* The authentication headers on their own, for every row of AuthRows and
\* clock reading of UnixTimes.
SpecSign == InitSign /\ [][NextSign]_vars

\* ------------------------------------------------------------ properties

Terminal == {WebhookLogStatusSuccess, WebhookLogStatusFailed}

\* The rows a step leaves in place.
Kept == DOMAIN logs \cap DOMAIN logs'

\* The endpoints a Trigger call for event e is to reach, read off the
\* table as it is when the call is made.
Subscribed(e) ==
  {w \in DOMAIN webhooks :
     webhooks[w].status = "enabled" /\ e \in webhooks[w].events}

\* The step is a Trigger call that creates exactly one row per endpoint of
\* expected and no other row, each row pending, never attempted, due at
\* once, with the endpoint's url and the call's payload.
CreatesRowsFor(expected) ==
  LET new == DOMAIN logs' \ DOMAIN logs
  IN  /\ \A w \in expected :
           Cardinality({r \in new : logs'[r].webhook_id = w}) = 1
      /\ \A r \in new :
           /\ logs'[r].webhook_id \in expected
           /\ logs'[r].status = "pending"
           /\ logs'[r].attempts = 0
           /\ logs'[r].next_retry_at = Null
           /\ logs'[r].url = webhooks[logs'[r].webhook_id].url
           /\ logs'[r].event = trig'.event
           /\ logs'[r].payload =
                << "event", trig'.event, "timestamp", now, "data", trig'.data >>

\* C1 as stated: every Trigger(e, d) call creates exactly one pending row
\* per enabled endpoint subscribed to e, and none for any other endpoint.
C1_EveryTriggerCreatesRows ==
  [][trig'.n # trig.n => CreatesRowsFor(Subscribed(trig'.event))]_vars

\* C1 amended: a Trigger(e, d) call whose data serializes and whose
\* endpoint query succeeds creates exactly one pending row (attempts 0,
\* next_retry_at null, the endpoint's url, the call's payload) per enabled
\* subscribed endpoint whose insert the store accepts, and none for any
\* other endpoint; any other call creates no row.
C1_TriggerCreatesRows ==
  [][trig'.n # trig.n =>
       CreatesRowsFor(IF trig'.selectOK /\ trig'.data # Unserializable
                      THEN Subscribed(trig'.event) \ trig'.failed
                      ELSE {})]_vars

\* C1 witness: a call has created a row for a subscribed endpoint while
\* another endpoint, disabled or not subscribed, got none.
C1_Witness ==
  /\ trig.n > 0
  /\ \E r \in DOMAIN logs : \E w \in DOMAIN webhooks :
       /\ logs[r].attempts = 0
       /\ w # logs[r].webhook_id
       /\ \A x \in DOMAIN logs : logs[x].webhook_id # w
       /\ (webhooks[w].status = "disabled" \/ trig.event \notin webhooks[w].events)

\* C2: a row that is success or failed keeps that status in every step.
C2_TerminalAbsorbing ==
  [][\A r \in Kept :
       logs[r].status \in Terminal => logs'[r].status = logs[r].status]_vars

\* C3: no row is finalized twice from the same value of attempts.
C3_NoDoubleFinalize ==
  \A r \in DOMAIN hist : \A i, j \in 1..Len(hist[r]) :
     i # j => hist[r][i].k # hist[r][j].k

\* The classes of the attempts finalized for row r.
Saw(r, classes) == {i \in 1..Len(hist[r]) : hist[r][i].class \in classes}

\* C4: a row is success exactly if some attempt for it saw a 2xx status.
C4_SuccessIff2xx ==
  \A r \in DOMAIN logs :
     (Saw(r, {"2xx"}) # {}) <=> (logs[r].status = "success")

\* C5: as long as no endpoint has been edited, a row is failed exactly if
\* a request could not be built for it or at least max_retries + 1 of its
\* attempts were not successful.
C5_FailedIffExhausted ==
  edits = 0 =>
    \A r \in DOMAIN logs :
       (logs[r].status = "failed") <=>
          \/ Saw(r, {"build"}) # {}
          \/ Cardinality(Saw(r, {"transport", "non2xx"}))
                >= webhooks[logs[r].webhook_id].max_retries + 1

\* C6: no step lowers a row's attempts.
C6_AttemptsMonotonic ==
  [][\A r \in Kept : logs'[r].attempts >= logs[r].attempts]_vars

\* C7 as stated: every row of an endpoint with a max_retries >= 0 has
\* attempts <= max_retries + 1 for the max_retries the endpoint has now.
C7_AttemptsWithinCurrentBudget ==
  \A r \in DOMAIN logs :
     webhooks[logs[r].webhook_id].max_retries >= 0 =>
        logs[r].attempts <= webhooks[logs[r].webhook_id].max_retries + 1

\* C7 amended: every row has attempts <= M + 1, where M is the largest
\* max_retries its endpoint has had since the row was created, or 0 if
\* that is negative.
C7_AttemptsWithinBudget ==
  \A r \in DOMAIN logs : logs[r].attempts <= Max(budget[r], 0) + 1

\* C7 witness: a row has used up the largest budget it ever had, and its
\* endpoint's budget has been lowered since.
C7_Witness ==
  \E r \in DOMAIN logs :
     /\ logs[r].attempts = Max(budget[r], 0) + 1
     /\ webhooks[logs[r].webhook_id].max_retries < budget[r]

\* C8: a row's attempts is the number of attempts finalized for it.
C8_AttemptsCountsDeliveries ==
  \A r \in DOMAIN logs : logs[r].attempts = Len(hist[r])

\* min(2 hours, 30s * 2^a), in nanoseconds.
IdealBackoff(a) ==
  IF a >= 8 THEN TwoHours ELSE Mul64(FromNat(30 * (2 ^ a)), Second)

\* C9: the delay computed for attempt a is min(2 hours, 30s * 2^a), and
\* is positive and at most 2 hours.
C9_BackoffIsCappedExponential ==
  calc.state = "done" =>
     /\ calc.delay = IdealBackoff(calc.a)
     /\ ~IsNeg64(calc.delay)
     /\ calc.delay # Zero64
     /\ ~Gt64(calc.delay, TwoHours)

\* C10: no step changes the url, event or payload of a row, and a request
\* in flight for a row carries that row's url, event and payload.
C10_SnapshotFrozen ==
  [][/\ \A r \in Kept :
          /\ logs'[r].url = logs[r].url
          /\ logs'[r].event = logs[r].event
          /\ logs'[r].payload = logs[r].payload
     /\ \A w \in WorkerIds :
          (pc'[w] = "update" /\ req'[w].delivery \in DOMAIN logs') =>
             /\ req'[w].url = logs'[req'[w].delivery].url
             /\ req'[w].event = logs'[req'[w].delivery].event
             /\ req'[w].body = logs'[req'[w].delivery].payload]_vars

\* C10 witness: a retry is in flight for a row whose endpoint has since
\* been given another url.
C10_Witness ==
  \E w \in WorkerIds :
     /\ pc[w] = "update"
     /\ req[w].delivery \in DOMAIN logs
     /\ logs[req[w].delivery].attempts > 0
     /\ webhooks[logs[req[w].delivery].webhook_id].url
          # logs[req[w].delivery].url

\* C11: under SpecLive every row is in the end attempted and success or
\* failed, although a read returns only the oldest LiveBatchLimit due rows.
C11_EveryRowSettles ==
  \A r \in 1..MaxLogs :
     (r \in DOMAIN logs) ~>
        (r \in DOMAIN logs /\ logs[r].status \in Terminal /\ Len(hist[r]) > 0)

\* C11 witness: two rows were due at once, the read took one, and both
\* are settled, one of them after a retry.
C11_Witness ==
  /\ Cardinality(DOMAIN logs) = 2
  /\ \A r \in DOMAIN logs : logs[r].status \in Terminal
  /\ \E r \in DOMAIN logs : logs[r].attempts >= 2

\* C12: as long as Close has not been called, at most opts.Workers workers
\* have been started, and once every Run call has returned exactly
\* opts.Workers workers exist, which is 2 if New was given a value <= 0.
C12_RunIdempotent ==
  calls.close = 0 =>
     /\ Len(gor) <= opts.Workers
     /\ opts.Workers = (IF opts.given <= 0 THEN 2 ELSE opts.given)
     /\ (calls.run > 0 /\ \A c \in Callers : call[c].pc = "idle") =>
           Cardinality({g \in DOMAIN gor : gor[g].st # "exited"}) = opts.Workers

\* C12 witness: three Run calls and no Close have been made on a manager
\* made with Workers = 0, all have returned, and two workers exist.
C12_Witness ==
  /\ calls.run >= 3 /\ calls.close = 0
  /\ \A c \in Callers : call[c].pc = "idle"
  /\ opts.given = 0
  /\ Len(gor) = 2

\* C13: when a Close call returns, every worker started so far has exited.
C13_CloseWaitsForWorkers ==
  [][calls'.closeReturned > calls.closeReturned =>
       \A g \in DOMAIN gor' : gor'[g].st = "exited"]_vars

\* C14: closing stopCh never panics.
C14_StopClosedOnce == ~panicked

\* C15: no worker reads the pending rows once stopCh is closed.
C15_NoReadAfterStop == \A g \in DOMAIN gor : ~gor[g].lateRead

\* C16: no worker that has read its batch before stopCh was closed starts
\* another attempt of that batch once stopCh is closed.
C16_NoAttemptAfterStop == \A g \in DOMAIN gor : ~gor[g].lateAttempt

\* C17: a Trigger call some of whose inserts the store rejects returns nil
\* and creates the pending rows of the other subscribed endpoints.
C17_InsertFailureSkipsOneEndpoint ==
  [][(trig'.n # trig.n /\ trig'.failed # {}
        /\ trig'.data # Unserializable) =>
       /\ trig'.ret = "nil"
       /\ CreatesRowsFor(Subscribed(trig'.event) \ trig'.failed)]_vars

\* C17 witness: the insert for the first endpoint failed, the call
\* returned nil, and the second endpoint has its row.
C17_Witness ==
  /\ trig.n > 0 /\ trig.ret = "nil" /\ trig.failed = {1}
  /\ \E r \in DOMAIN logs :
       logs[r].webhook_id = 2 /\ logs[r].status = "pending"

\* C18 as stated: a Trigger call whose data cannot be serialized returns
\* an error and creates no row.
C18_UnserializableIsError ==
  [][(trig'.n # trig.n /\ trig'.data = Unserializable) =>
       (trig'.ret = "err" /\ logs' = logs)]_vars

\* C18 amended: a Trigger call whose data cannot be serialized creates no
\* row; it returns an error if the endpoint query fails or some enabled
\* endpoint is subscribed to the event, and nil otherwise.
C18_UnserializableCreatesNoRow ==
  [][(trig'.n # trig.n /\ trig'.data = Unserializable) =>
       /\ logs' = logs
       /\ (trig'.ret = "err") <=>
             (~trig'.selectOK \/ Subscribed(trig'.event) # {})]_vars

\* C18 witness: a call with unserializable data for an event an enabled
\* endpoint is subscribed to has returned an error and left no row.
C18_Witness ==
  /\ trig.n > 0 /\ trig.data = Unserializable /\ trig.selectOK
  /\ trig.ret = "err"
  /\ Subscribed(trig.event) # {}
  /\ logs = << >>

\* C19: when a worker is done with an attempt that failed, the row carries
\* that attempt: its attempts is the fetched value plus one, its error is
\* set and its status is pending or failed.
C19_FailureIsCaptured ==
  [][\A w \in WorkerIds :
       (/\ pc[w] = "update" /\ pc'[w] # "update"
        /\ (resp[w].err \/ ~Is2xx(resp[w].code))
        /\ Head(batch[w]).id \in DOMAIN logs') =>
          LET l == Head(batch[w])
          IN  /\ logs'[l.id].attempts = l.attempts + 1
              /\ logs'[l.id].error # ""
              /\ logs'[l.id].status \in {"pending", "failed"}]_vars

\* The number a sequence of decimal digits denotes.
RECURSIVE ParseInt(_)
ParseInt(digits) ==
  IF digits = << >> THEN 0
  ELSE 10 * ParseInt(SubSeq(digits, 1, Len(digits) - 1))
         + (CHOOSE d \in 0..9 : Digits[d + 1] = digits[Len(digits)])

\* C20: in hmac mode the X-Listmonk-Timestamp header is the clock reading
\* in decimal, and the X-Listmonk-Signature header is computeHMAC of the
\* row's payload, the secret and the time stamp read back from the header.
C20_SignedTimestampIsHeader ==
  (calc.state = "done" /\ calc.l.auth_type = WebhookAuthTypeHMAC) =>
     /\ ParseInt(calc.headers.Timestamp) = calc.unix
     /\ calc.headers.Signature =
          computeHMAC(calc.l.payload, calc.l.auth_hmac_secret,
                      ParseInt(calc.headers.Timestamp))
     /\ calc.headers.Signature[2].msg =
          calc.headers.Timestamp \o << "." >> \o calc.l.payload

\* C20 witness: a request has been signed with a secret at a ten-digit
\* time.
C20_Witness ==
  /\ calc.state = "done"
  /\ calc.l.auth_type = WebhookAuthTypeHMAC
  /\ calc.l.auth_hmac_secret # ""
  /\ Len(calc.headers.Timestamp) = 10
  /\ calc.headers.Signature # NoHeader

\* C21: a TestWebhook call for an enabled endpoint creates a pending row
\* with event webhook.test for that endpoint.
C21_TestCreatesRow ==
  [][\A id \in DOMAIN webhooks :
       (/\ trig'.n # trig.n
        /\ trig'.event = TestEvent
        /\ trig'.data = TestData(GetWebhook(id))
        /\ webhooks[id].status = WebhookStatusEnabled) =>
          \E r \in DOMAIN logs' \ DOMAIN logs :
             /\ logs'[r].webhook_id = id
             /\ logs'[r].event = TestEvent
             /\ logs'[r].status = WebhookLogStatusPending]_vars

\* The stored password and secret of an endpoint row.
Secrets(row) == << row.auth_basic_pass, row.auth_hmac_secret >>

\* C22: an UpdateWebhook call with an empty password or secret keeps the
\* stored one, a read returns no stored non-empty password or secret, and
\* reading an endpoint and writing the result back leaves both as stored.
C22_SecretsSurviveReadWrite ==
  [][\A id \in DOMAIN webhooks \cap DOMAIN webhooks' :
       /\ \A w \in WebhookInputs :
            (edits' # edits /\ webhooks' # webhooks
               /\ webhooks'[id] = UpdateWebhookRow(webhooks[id], w)) =>
              /\ w.auth_basic_pass = "" =>
                    webhooks'[id].auth_basic_pass = webhooks[id].auth_basic_pass
              /\ w.auth_hmac_secret = "" =>
                    webhooks'[id].auth_hmac_secret = webhooks[id].auth_hmac_secret
       /\ webhooks[id].auth_basic_pass # "" =>
            GetWebhook(id).auth_basic_pass # webhooks[id].auth_basic_pass
       /\ webhooks[id].auth_hmac_secret # "" =>
            GetWebhook(id).auth_hmac_secret # webhooks[id].auth_hmac_secret
       /\ ReadWriteBack(id) => Secrets(webhooks'[id]) = Secrets(webhooks[id])]_vars

\* min(2 hours, 30s * 2^a) in units of the clock.
IdealTicks == [a \in 0..8 |-> Ticks(IdealBackoff(a))]

C24_BuildErrorIsTerminal ==
  [][/\ \A w \in WorkerIds :
          (/\ pc[w] = "deliver"
           /\ pc'[w] = "update" \/ batch'[w] # batch[w]
           /\ Head(batch[w]).url = BadURL) =>
             LET l == Head(batch[w])
             IN  /\ pc'[w] # "update"
                 /\ req'[w] = NoRequest
                 /\ l.id \in DOMAIN logs' =>
                      /\ logs'[l.id].status = "failed"
                      /\ logs'[l.id].response_code = 0
                      /\ logs'[l.id].error # ""
                      /\ logs'[l.id].attempts = l.attempts + 1
                      /\ logs'[l.id].next_retry_at = Null
     /\ \A w \in WorkerIds : req'[w].url # BadURL
     /\ \A r \in Kept :
          (logs[r].url = BadURL /\ logs[r].status = "failed") =>
             logs'[r] = logs[r]]_vars

\* C24 witness: a row was written off on its first attempt for a request
\* that could not be built, with three retries left, and a worker that had
\* fetched it as well has gone through it too.
C24_Witness ==
  \E r \in DOMAIN logs :
     /\ logs[r].url = BadURL
     /\ logs[r].status = "failed"
     /\ logs[r].attempts = 1
     /\ webhooks[logs[r].webhook_id].max_retries = DefaultMaxRetries
     /\ Len(hist[r]) = 2

\* C25: whenever a worker sends the request for a row, the stored row is
\* pending and its retry time is null or not in the future.
C25_SendsOnlyDueRows ==
  [][\A w \in WorkerIds :
       (/\ pc[w] = "deliver" /\ pc'[w] = "update"
        /\ Head(batch[w]).id \in DOMAIN logs) =>
          LET row == logs[Head(batch[w]).id]
          IN  /\ row.status = "pending"
              /\ row.next_retry_at = Null \/ row.next_retry_at <= now]_vars

\* The rows get-pending-webhook-logs is to choose from.
Due ==
  {r \in DOMAIN logs :
     /\ logs[r].status = "pending"
     /\ logs[r].next_retry_at = Null \/ logs[r].next_retry_at <= now}

\* The step gives worker w a batch read off the table: at most BatchScale
\* rows, all of them due, none newer than a due row left out, in ascending
\* order of created_at.
ReadsOldestDue(w) ==
  LET b == batch'[w]
      ids == {b[i].id : i \in 1..Len(b)}
  IN  /\ Len(b) <= BatchScale
      /\ Cardinality(ids) = Len(b)
      /\ ids \subseteq Due
      /\ Len(b) < BatchScale => ids = Due
      /\ \A i \in 1..Len(b) : b[i].created_at = logs[b[i].id].created_at
      /\ \A i, j \in 1..Len(b) : i < j => b[i].created_at <= b[j].created_at
      /\ \A r \in Due \ ids : \A i \in 1..Len(b) :
            b[i].created_at <= logs[r].created_at

\* C26: a worker's batch changes only when the worker, its batch empty,
\* reads the oldest due rows, at most the LIMIT, in created_at order, or
\* when it has written the outcome for the first row left; the only
\* request a worker has in flight is for the first row left.
C26_BatchInOrder ==
  [][\A w \in WorkerIds :
       /\ batch'[w] # batch[w] =>
            \/ pc[w] = "idle" /\ batch[w] = << >> /\ ReadsOldestDue(w)
            \/ /\ pc[w] # "idle" /\ batch[w] # << >>
               /\ batch'[w] = Tail(batch[w])
               /\ Head(batch[w]).id \in DOMAIN logs =>
                    Len(hist'[Head(batch[w]).id])
                      = Len(hist[Head(batch[w]).id]) + 1
       /\ pc'[w] = "update" =>
            batch'[w] # << >> /\ req'[w].delivery = Head(batch'[w]).id
       /\ pc'[w] # "update" => req'[w] = NoRequest
       /\ pc'[w] = "idle" <=> batch'[w] = << >>]_vars

\* C26 witness: three rows were due, the read took the two oldest, of
\* different age, and the worker has finished the first and has the
\* request for the second in flight.
C26_Witness ==
  \E w \in WorkerIds :
     /\ pc[w] = "update"
     /\ Len(batch[w]) = 1
     /\ \E r \in DOMAIN logs :
          /\ r # batch[w][1].id
          /\ Len(hist[r]) >= 2
          /\ logs[r].created_at < batch[w][1].created_at
     /\ \E r \in DOMAIN logs :
          /\ logs[r].status = "pending" /\ logs[r].attempts = 0
          /\ logs[r].created_at >= batch[w][1].created_at
          /\ r # batch[w][1].id

\* C27: a row that is success or failed has no retry time and attempts of
\* at least 1; a pending row has attempts 0 and no retry time, or attempts
\* of at least 1 and a retry time.
C27_RowConsistent ==
  \A r \in DOMAIN logs :
     /\ logs[r].status \in Terminal =>
          logs[r].next_retry_at = Null /\ logs[r].attempts >= 1
     /\ logs[r].status = "pending" =>
          \/ logs[r].attempts = 0 /\ logs[r].next_retry_at = Null
          \/ logs[r].attempts >= 1 /\ logs[r].next_retry_at # Null

\* C27 witness: a row that one worker wrote as success has been written
\* back to pending, with a retry time, by another worker.
C27_Witness ==
  \E r \in DOMAIN logs :
     /\ Saw(r, {"2xx"}) # {}
     /\ logs[r].status = "pending"
     /\ logs[r].attempts >= 1
     /\ logs[r].next_retry_at # Null

\* C28: a read returns every due row whatever the status of its endpoint,
\* with the endpoint's max_retries, timeout and authentication settings as
\* they are now, and the request for a row is sent with the timeout and
\* the authentication it was read with; every row belongs to an endpoint
\* that exists, and a worker's write for a row that is gone changes no row;
\* only a Trigger call creates rows.
C28_StatusOnlyAtTrigger ==
  [][/\ \A w \in WorkerIds :
          /\ (pc[w] = "idle" /\ batch'[w] # batch[w]) =>
               /\ {batch'[w][i].id : i \in 1..Len(batch'[w])} = Due
               /\ \A i \in 1..Len(batch'[w]) :
                    LET b == batch'[w][i]
                        e == webhooks[logs[b.id].webhook_id]
                    IN  /\ b.max_retries = e.max_retries
                        /\ b.timeout = e.timeout
                        /\ b.auth_type = e.auth_type
                        /\ b.auth_basic_user = e.auth_basic_user
                        /\ b.auth_basic_pass = e.auth_basic_pass
                        /\ b.auth_hmac_secret = e.auth_hmac_secret
          /\ (pc[w] = "deliver" /\ pc'[w] = "update") =>
               LET l == Head(batch[w])
               IN  /\ req'[w].timeout = (IF l.timeout = "5s" THEN 5 ELSE 30)
                   /\ (req'[w].auth.Signature # << >>)
                         <=> (l.auth_type = "hmac")
                   /\ l.auth_type = "hmac" =>
                         req'[w].auth.Signature[2].key = l.auth_hmac_secret
                   /\ (req'[w].auth.Authorization # << >>)
                         <=> (l.auth_type = "basic")
                   /\ l.auth_type = "basic" =>
                         req'[w].auth.Authorization
                           = << "Basic", l.auth_basic_user, l.auth_basic_pass >>
          /\ (pc[w] # "idle" /\ batch'[w] # batch[w]
                /\ Head(batch[w]).id \notin DOMAIN logs) => logs' = logs
     /\ \A r \in DOMAIN logs' : logs'[r].webhook_id \in DOMAIN webhooks'
     /\ \A r \in Kept : logs'[r].webhook_id = logs[r].webhook_id
     /\ trig' = trig => DOMAIN logs' \subseteq DOMAIN logs]_vars

\* C28 witness: a row failed once while its endpoint was enabled with a
\* retry budget; the endpoint was then disabled and given max_retries 0,
\* and the row was read again, retried and written off against that 0.
C28_Witness ==
  \E r \in DOMAIN logs :
     /\ webhooks[logs[r].webhook_id].status = WebhookStatusDisabled
     /\ logs[r].status = "failed"
     /\ logs[r].attempts = 2
     /\ Len(hist[r]) = 2
     /\ hist[r][1].m > 0
     /\ hist[r][2].m = webhooks[logs[r].webhook_id].max_retries
     /\ hist[r][2].m = 0

====
